---------------------------- MODULE Spec2Model ----------------------------
(***************************************************************************)
(* Model of the KurobaEx post parser: the markup parser (HtmlParser), its  *)
(* tag grammar (create_tag / split_into_parts_by_separator) and the span   *)
(* and spoiler rule handlers that annotate the flattened text.             *)
(*                                                                         *)
(* A string is a sequence of text units (UTF-16 code units, as the parser  *)
(* works on html.encode_utf16()).  Every unit is written as a one-letter   *)
(* string, except the unit U+00E9, written "U+00E9", the only unit of the  *)
(* inputs whose UTF-8 encoding takes two bytes.  Offsets are 0-based as in *)
(* the source: the unit at offset i of s is s[i + 1].  The older parser    *)
(* (html_parser) reads the bytes of the input, each byte as one unit of    *)
(* U+0000..U+00FF; its operators carry the prefix legacy_.                 *)
(***************************************************************************)
EXTENDS Integers, Sequences, FiniteSets, TLC

VARIABLES
  pc,              \* "tag" | "tag_done" | "html" | "parsed" | "parsed_legacy" | "flattened"
  tag_raw,         \* the raw tag text handed to create_tag
  tag_result,      \* what create_tag returned: [panic, element]
  html,            \* the post body handed to HtmlParser::parse
  internal_posts,  \* the posts PostParserContext reports as internal
  parse_result,    \* what parse returned: [panic, nodes]
  legacy_result,   \* what parse of the parser over bytes returned: [panic, nodes]
  out              \* the accumulators: [panic, text_parts, spannables]

vars == <<pc, tag_raw, tag_result, html, internal_posts, parse_result, legacy_result, out>>

\* ------------------------------------------------------------------ bounds

\* The longest raw tag text drawn from TagChunks, in chunks.
MaxTagChunks == 5

\* The longest post body drawn from HtmlChunks, in chunks.
MaxHtmlChunks == 3

\* ----------------------------------------------------------------- strings

Str_class ==
  <<"c", "l", "a", "s", "s">>
Str_deadlink ==
  <<"d", "e", "a", "d", "l", "i", "n", "k">>
Str_quote ==
  <<"q", "u", "o", "t", "e">>
Str_span ==
  <<"s", "p", "a", "n">>

\* The panics of the parser.  NoPanic: the call returned.
NoPanic == ""
PanicTagEnd == "Failed to find tag end"
PanicTagPartsEmpty == "tag_parts is empty!"
PanicNoName == "Tag has no name!"
PanicIndex == "index out of bounds"
PanicUnwrapNone == "called Option::unwrap on a None value"

VOID_ELEMENTS ==
  { <<"a", "r", "e", "a">>, <<"b", "a", "s", "e">>, <<"b", "r">>,
    <<"w", "b", "r">>, <<"c", "o", "l">>, <<"h", "r">>, <<"i", "m", "g">>,
    <<"i", "n", "p", "u", "t">>, <<"l", "i", "n", "k">>,
    <<"m", "e", "t", "a">>, <<"p", "a", "r", "a", "m">> }

\* str.contains(ch)
Contains(str, ch) ==
  \E i \in 1..Len(str) : str[i] = ch

\* ------------------------------------------------------------- tag grammar

RECURSIVE split_loop_ignoring_quotes(_, _, _, _, _, _)
\* A plausible slip: the quote state is never consulted.
split_loop_ignoring_quotes(tag_bytes, separator, offset, is_inside_string, tag_parts, current_tag_part) ==
  IF offset < Len(tag_bytes)
  THEN LET ch == tag_bytes[offset + 1]
       IN IF ch = separator
          THEN split_loop_ignoring_quotes(tag_bytes, separator, offset + 1, FALSE,
                                          Append(tag_parts, current_tag_part), <<>>)
          ELSE split_loop_ignoring_quotes(tag_bytes, separator, offset + 1, FALSE,
                                          tag_parts, Append(current_tag_part, ch))
  ELSE IF Len(current_tag_part) > 0
       THEN Append(tag_parts, current_tag_part)
       ELSE tag_parts

RECURSIVE split_loop(_, _, _, _, _, _)
\* The while loop of split_into_parts_by_separator and the flush after it.
split_loop(tag_bytes, separator, offset, is_inside_string, tag_parts, current_tag_part) ==
  IF offset < Len(tag_bytes)
  THEN LET ch == tag_bytes[offset + 1]
           inside == IF ch = "\"" THEN ~is_inside_string ELSE is_inside_string
       IN IF ch = separator /\ ~inside
          THEN split_loop(tag_bytes, separator, offset + 1, inside,
                          Append(tag_parts, current_tag_part), <<>>)
          ELSE split_loop(tag_bytes, separator, offset + 1, inside,
                          tag_parts, Append(current_tag_part, ch))
  ELSE IF Len(current_tag_part) > 0
       THEN Append(tag_parts, current_tag_part)
       ELSE tag_parts

split_into_parts_by_separator(raw, separator) ==
  split_loop(raw, separator, 0, FALSE, <<>>, <<>>)

\* attr_value with one leading and then one trailing double quote removed.
strip_quotes(attr_value) ==
  LET v1 == IF Len(attr_value) > 0 /\ attr_value[1] = "\""
            THEN SubSeq(attr_value, 2, Len(attr_value)) ELSE attr_value
  IN IF Len(v1) > 0 /\ v1[Len(v1)] = "\""
     THEN SubSeq(v1, 1, Len(v1) - 1) ELSE v1

\* LinkedHashMap::insert: a key already present takes the new value and
\* moves to the end of the iteration order.
attributes_insert(attributes, attr_name, attr_value) ==
  Append(SelectSeq(attributes, LAMBDA a : a.name # attr_name),
         [name |-> attr_name, value |-> attr_value])

RECURSIVE create_tag_loop(_, _, _, _)
\* The for loop over tag_parts: [panic, tag_name_maybe, attributes].
create_tag_loop(tag_parts, i, tag_name_maybe, attributes) ==
  IF i > Len(tag_parts)
  THEN [panic |-> NoPanic, tag_name_maybe |-> tag_name_maybe, attributes |-> attributes]
  ELSE LET tag_part == tag_parts[i] IN
    IF ~Contains(tag_part, "=")
    THEN create_tag_loop(tag_parts, i + 1, [some |-> TRUE, value |-> tag_part], attributes)
    ELSE LET attribute_split_vec == split_into_parts_by_separator(tag_part, "=") IN
      IF Len(attribute_split_vec) < 2
      THEN [panic |-> PanicIndex, tag_name_maybe |-> tag_name_maybe, attributes |-> attributes]
      ELSE LET attr_name == attribute_split_vec[1]
               attr_value == strip_quotes(attribute_split_vec[2])
           IN IF attr_name = <<>> \/ attr_value = <<>>
              THEN create_tag_loop(tag_parts, i + 1, tag_name_maybe, attributes)
              ELSE create_tag_loop(tag_parts, i + 1, tag_name_maybe,
                                   attributes_insert(attributes, attr_name, attr_value))

NoElement ==
  [tag_name |-> <<>>, attributes |-> <<>>, children |-> <<>>, is_void_element |-> FALSE]

create_tag(raw) ==
  LET tag_parts == split_into_parts_by_separator(raw, " ") IN
  IF tag_parts = <<>>
  THEN [panic |-> PanicTagPartsEmpty, element |-> NoElement]
  ELSE LET r == create_tag_loop(tag_parts, 1, [some |-> FALSE, value |-> <<>>], <<>>) IN
    IF r.panic # NoPanic
    THEN [panic |-> r.panic, element |-> NoElement]
    ELSE IF ~r.tag_name_maybe.some
    THEN [panic |-> PanicNoName, element |-> NoElement]
    ELSE [panic |-> NoPanic,
          element |-> [tag_name |-> r.tag_name_maybe.value,
                       attributes |-> r.attributes,
                       children |-> <<>>,
                       is_void_element |-> r.tag_name_maybe.value \in VOID_ELEMENTS]]

\* ------------------------------------------------------------------ parser

NodeText(text) ==
  [kind |-> "Text", text |-> text, tag_name |-> <<>>, attributes |-> <<>>,
   children |-> <<>>, is_void_element |-> FALSE]

NodeElement(element) ==
  [kind |-> "Element", text |-> <<>>, tag_name |-> element.tag_name,
   attributes |-> element.attributes, children |-> element.children,
   is_void_element |-> element.is_void_element]

RECURSIVE skip_tag_end_at_gt(_, _)
\* A plausible slip: the cursor is left on the ">" of the closing tag.
skip_tag_end_at_gt(input, start) ==
  IF start < Len(input)
  THEN IF input[start + 1] = ">"
       THEN [panic |-> NoPanic, offset |-> start]
       ELSE skip_tag_end_at_gt(input, start + 1)
  ELSE [panic |-> PanicTagEnd, offset |-> start]

RECURSIVE skip_tag_end(_, _)
skip_tag_end(input, start) ==
  IF start < Len(input)
  THEN IF input[start + 1] = ">"
       THEN [panic |-> NoPanic, offset |-> start + 1]
       ELSE skip_tag_end(input, start + 1)
  ELSE [panic |-> PanicTagEnd, offset |-> start]

RECURSIVE tag_raw_end(_, _)
\* The while loop of parse_tag: the offset of the first ">" at or after
\* start, Len(input) when there is none.
tag_raw_end(input, start) ==
  IF start < Len(input) /\ input[start + 1] # ">"
  THEN tag_raw_end(input, start + 1)
  ELSE IF start < Len(input) THEN start ELSE Len(input)

\* out_nodes after the pending text buffer is flushed.
flush_buffer(out_nodes, current_buffer) ==
  IF Len(current_buffer) > 0
  THEN Append(out_nodes, NodeText(current_buffer))
  ELSE out_nodes

RECURSIVE parse_internal_loop(_, _, _, _)
RECURSIVE parse_tag(_, _)

\* A plausible slip: the ">" that ends the opening tag is not skipped.
parse_tag_keeps_gt(input, start) ==
  LET gt == tag_raw_end(input, start)
      created == create_tag(SubSeq(input, start + 1, gt))
  IN IF created.panic # NoPanic
     THEN [panic |-> created.panic, element |-> NoElement, offset |-> gt]
     ELSE IF created.element.is_void_element
     THEN [panic |-> NoPanic, element |-> created.element, offset |-> gt]
     ELSE LET inner == parse_internal_loop(input, gt, <<>>, <<>>) IN
       [panic |-> inner.panic,
        element |-> [created.element EXCEPT !.children = inner.nodes,
                                            !.is_void_element = FALSE],
        offset |-> inner.offset]

\* A plausible slip: a void element descends into children like any other.
parse_tag_void_descends(input, start) ==
  LET gt == tag_raw_end(input, start)
      local_offset == gt + 1
      created == create_tag(SubSeq(input, start + 1, gt))
  IN IF created.panic # NoPanic
     THEN [panic |-> created.panic, element |-> NoElement, offset |-> local_offset]
     ELSE LET inner == parse_internal_loop(input, local_offset, <<>>, <<>>) IN
       [panic |-> inner.panic,
        element |-> [created.element EXCEPT !.children = inner.nodes],
        offset |-> inner.offset]

parse_tag(input, start) ==
  LET gt == tag_raw_end(input, start)
      local_offset == gt + 1
      created == create_tag(SubSeq(input, start + 1, gt))
  IN IF created.panic # NoPanic
     THEN [panic |-> created.panic, element |-> NoElement, offset |-> local_offset]
     ELSE IF created.element.is_void_element
     THEN [panic |-> NoPanic, element |-> created.element, offset |-> local_offset]
     ELSE LET inner == parse_internal_loop(input, local_offset, <<>>, <<>>) IN
       [panic |-> inner.panic,
        element |-> [created.element EXCEPT !.children = inner.nodes,
                                            !.is_void_element = FALSE],
        offset |-> inner.offset]

\* The while loop of parse_internal and the flush after it.
parse_internal_loop(input, local_offset, out_nodes, current_buffer) ==
  IF local_offset < Len(input)
  THEN LET curr_char == input[local_offset + 1] IN
    IF curr_char = "<"
    THEN LET flushed == flush_buffer(out_nodes, current_buffer)
             next_offset == local_offset + 1
         IN IF next_offset >= Len(input)
            THEN [panic |-> PanicIndex, nodes |-> flushed, offset |-> next_offset]
            ELSE IF input[next_offset + 1] = "/"
            THEN LET skipped == skip_tag_end(input, next_offset) IN
              [panic |-> skipped.panic, nodes |-> flushed, offset |-> skipped.offset]
            ELSE LET tag == parse_tag(input, next_offset) IN
              IF tag.panic # NoPanic
              THEN [panic |-> tag.panic, nodes |-> flushed, offset |-> tag.offset]
              ELSE parse_internal_loop(input, tag.offset,
                                       Append(flushed, NodeElement(tag.element)), <<>>)
    ELSE parse_internal_loop(input, local_offset + 1, out_nodes,
                             Append(current_buffer, curr_char))
  ELSE [panic |-> NoPanic, nodes |-> flush_buffer(out_nodes, current_buffer),
        offset |-> local_offset]

parse_internal(input, start) ==
  parse_internal_loop(input, start, <<>>, <<>>)

\* HtmlParser::parse: the nodes of parse_internal from offset 0; a panic
\* of the parser aborts the call and no tree is returned.
parse(input) ==
  LET r == parse_internal(input, 0) IN
  IF r.panic # NoPanic
  THEN [panic |-> r.panic, nodes |-> <<>>]
  ELSE [panic |-> NoPanic, nodes |-> r.nodes]

\* ------------------------------------------- the parser over bytes

\* str::as_bytes, each byte then read `as char`: a unit below U+0080 is one
\* byte and stays itself; a unit of U+0080..U+00FF is two bytes, which are
\* read as two units of that range.
legacy_as_bytes_of(unit) ==
  IF unit = "U+00E9" THEN <<"U+00C3", "U+00A9">>
  ELSE IF unit = "U+00C3" THEN <<"U+00C3", "U+0083">>
  ELSE IF unit = "U+00A9" THEN <<"U+00C2", "U+00A9">>
  ELSE IF unit = "U+00C2" THEN <<"U+00C3", "U+0082">>
  ELSE IF unit = "U+0083" THEN <<"U+00C2", "U+0083">>
  ELSE IF unit = "U+0082" THEN <<"U+00C2", "U+0082">>
  ELSE <<unit>>

RECURSIVE legacy_as_bytes(_)
legacy_as_bytes(str) ==
  IF str = <<>> THEN <<>>
  ELSE legacy_as_bytes_of(Head(str)) \o legacy_as_bytes(Tail(str))

\* split_tag_raw_into_parts: the split at spaces outside double quotes, over
\* the bytes of the raw tag text.
legacy_split_tag_raw_into_parts(raw) ==
  split_loop(legacy_as_bytes(raw), " ", 0, FALSE, <<>>, <<>>)

RECURSIVE legacy_split_at_eq(_, _, _)
\* str::split("="): every "=" splits, an empty piece is kept.
legacy_split_at_eq(str, i, piece) ==
  IF i > Len(str) THEN <<piece>>
  ELSE IF str[i] = "=" THEN <<piece>> \o legacy_split_at_eq(str, i + 1, <<>>)
  ELSE legacy_split_at_eq(str, i + 1, Append(piece, str[i]))

RECURSIVE legacy_create_tag_loop(_, _, _, _)
\* The for loop over tag_parts: [tag_name_maybe, attributes].
legacy_create_tag_loop(tag_parts, i, tag_name_maybe, attributes) ==
  IF i > Len(tag_parts)
  THEN [tag_name_maybe |-> tag_name_maybe, attributes |-> attributes]
  ELSE LET tag_part == tag_parts[i] IN
    IF ~Contains(tag_part, "=")
    THEN legacy_create_tag_loop(tag_parts, i + 1, [some |-> TRUE, value |-> tag_part],
                                attributes)
    ELSE LET attribute_split_vec == legacy_split_at_eq(tag_part, 1, <<>>) IN
      legacy_create_tag_loop(tag_parts, i + 1, tag_name_maybe,
                             attributes_insert(attributes, attribute_split_vec[1],
                                               attribute_split_vec[2]))

\* create_tag of the parser over bytes; the Element's name is kept in the
\* field tag_name.
legacy_create_tag(raw) ==
  LET tag_parts == legacy_split_tag_raw_into_parts(raw) IN
  IF tag_parts = <<>>
  THEN [panic |-> PanicTagPartsEmpty, element |-> NoElement]
  ELSE LET r == legacy_create_tag_loop(tag_parts, 1, [some |-> FALSE, value |-> <<>>], <<>>) IN
    IF ~r.tag_name_maybe.some
    THEN [panic |-> PanicNoName, element |-> NoElement]
    ELSE [panic |-> NoPanic,
          element |-> [tag_name |-> r.tag_name_maybe.value,
                       attributes |-> r.attributes,
                       children |-> <<>>,
                       is_void_element |-> r.tag_name_maybe.value \in VOID_ELEMENTS]]

RECURSIVE legacy_parse_internal_loop(_, _, _, _)

legacy_parse_tag(input, start) ==
  LET gt == tag_raw_end(input, start)
      local_offset == gt + 1
      created == legacy_create_tag(SubSeq(input, start + 1, gt))
  IN IF created.panic # NoPanic
     THEN [panic |-> created.panic, element |-> NoElement, offset |-> local_offset]
     ELSE IF created.element.is_void_element
     THEN [panic |-> NoPanic, element |-> created.element, offset |-> local_offset]
     ELSE LET inner == legacy_parse_internal_loop(input, local_offset, <<>>, <<>>) IN
       [panic |-> inner.panic,
        element |-> [created.element EXCEPT !.children = inner.nodes,
                                            !.is_void_element = FALSE],
        offset |-> inner.offset]

\* The while loop of parse_internal over bytes and the flush after it.
legacy_parse_internal_loop(input, local_offset, out_nodes, current_buffer) ==
  IF local_offset < Len(input)
  THEN LET curr_char == input[local_offset + 1] IN
    IF curr_char = "<"
    THEN LET flushed == flush_buffer(out_nodes, current_buffer)
             next_offset == local_offset + 1
         IN IF next_offset >= Len(input)
            THEN [panic |-> PanicIndex, nodes |-> flushed, offset |-> next_offset]
            ELSE IF input[next_offset + 1] = "/"
            THEN LET skipped == skip_tag_end(input, next_offset) IN
              [panic |-> skipped.panic, nodes |-> flushed, offset |-> skipped.offset]
            ELSE LET tag == legacy_parse_tag(input, next_offset) IN
              IF tag.panic # NoPanic
              THEN [panic |-> tag.panic, nodes |-> flushed, offset |-> tag.offset]
              ELSE legacy_parse_internal_loop(input, tag.offset,
                                              Append(flushed, NodeElement(tag.element)), <<>>)
    ELSE legacy_parse_internal_loop(input, local_offset + 1, out_nodes,
                                    Append(current_buffer, curr_char))
  ELSE [panic |-> NoPanic, nodes |-> flush_buffer(out_nodes, current_buffer),
        offset |-> local_offset]

legacy_parse_internal(input, start) ==
  legacy_parse_internal_loop(input, start, <<>>, <<>>)

\* HtmlParser::parse of the parser over bytes
legacy_parse(input) ==
  LET r == legacy_parse_internal(legacy_as_bytes(input), 0) IN
  IF r.panic # NoPanic
  THEN [panic |-> r.panic, nodes |-> <<>>]
  ELSE [panic |-> NoPanic, nodes |-> r.nodes]

\* ------------------------------------------------- text parts, spannables

\* String::len(): the length of a string in bytes of its UTF-8 encoding.
utf8_len(unit) ==
  IF unit = "U+00E9" THEN 2 ELSE 1

RECURSIVE string_len(_)
string_len(str) ==
  IF str = <<>> THEN 0 ELSE utf8_len(Head(str)) + string_len(Tail(str))

\* A TextPart: an emitted fragment and its length in text units.
TextPart(text) ==
  [text |-> text, characters_count |-> Len(text)]

\* Spannable::is_valid
is_valid(spannable) ==
  spannable.len > 0

NoPost == <<>>

Spannable(start, len, kind, post_no) ==
  [start |-> start, len |-> len, spannable_data |-> [kind |-> kind, post_no |-> post_no]]

RECURSIVE sum_characters_count(_, _, _)
\* The sum of characters_count over out_text_parts[from..to], 0-based, to excluded.
sum_characters_count(out_text_parts, from, to) ==
  IF from >= to THEN 0
  ELSE out_text_parts[from + 1].characters_count
       + sum_characters_count(out_text_parts, from + 1, to)

RECURSIVE sum_string_len(_, _, _)
\* The sum of string.len() over out_text_parts[from..to], 0-based, to excluded.
sum_string_len(out_text_parts, from, to) ==
  IF from >= to THEN 0
  ELSE string_len(out_text_parts[from + 1].text)
       + sum_string_len(out_text_parts, from + 1, to)

get_out_text_parts_diff_len(prev_out_text_parts_index, out_text_parts) ==
  IF prev_out_text_parts_index <= 0
  THEN 0
  ELSE sum_string_len(out_text_parts, 0, prev_out_text_parts_index)

get_out_text_parts_new_len(prev_out_text_parts_index, out_text_parts) ==
  sum_string_len(out_text_parts, prev_out_text_parts_index, Len(out_text_parts))

\* ------------------------------------------------------------ collaborators

Str_gt_entity ==
  <<"&", "g", "t", ";">>
Str_lt_entity ==
  <<"&", "l", "t", ";">>
Str_amp_entity ==
  <<"&", "a", "m", "p", ";">>
Str_quot_entity ==
  <<"&", "q", "u", "o", "t", ";">>

\* str has prefix at 0-based offset i
HasAt(str, i, prefix) ==
  /\ i + Len(prefix) <= Len(str)
  /\ SubSeq(str, i + 1, i + Len(prefix)) = prefix

RECURSIVE decode_from(_, _)
decode_from(str, i) ==
  IF i >= Len(str) THEN <<>>
  ELSE IF HasAt(str, i, Str_gt_entity) THEN <<">">> \o decode_from(str, i + 4)
  ELSE IF HasAt(str, i, Str_lt_entity) THEN <<"<">> \o decode_from(str, i + 4)
  ELSE IF HasAt(str, i, Str_amp_entity) THEN <<"&">> \o decode_from(str, i + 5)
  ELSE IF HasAt(str, i, Str_quot_entity) THEN <<"\"">> \o decode_from(str, i + 6)
  ELSE <<str[i + 1]>> \o decode_from(str, i + 1)

\* html_escape::decode_html_entities, for the four entities of the model.
decode_html_entities(str) ==
  decode_from(str, 0)

Digits == {"0", "1", "2", "3", "4", "5", "6", "7", "8", "9"}

DigitValue ==
  "0" :> 0 @@ "1" :> 1 @@ "2" :> 2 @@ "3" :> 3 @@ "4" :> 4 @@
  "5" :> 5 @@ "6" :> 6 @@ "7" :> 7 @@ "8" :> 8 @@ "9" :> 9

Str_u64_max ==
  <<"1", "8", "4", "4", "6", "7", "4", "4", "0", "7", "3", "7", "0", "9", "5", "5", "1", "6", "1", "5">>

RECURSIVE strip_leading_zeros(_)
strip_leading_zeros(digits) ==
  IF Len(digits) > 1 /\ Head(digits) = "0"
  THEN strip_leading_zeros(Tail(digits))
  ELSE digits

RECURSIVE digits_leq(_, _)
\* a <= b for two digit strings of the same length
digits_leq(a, b) ==
  IF a = <<>> THEN TRUE
  ELSE IF DigitValue[Head(a)] < DigitValue[Head(b)] THEN TRUE
  ELSE IF DigitValue[Head(a)] > DigitValue[Head(b)] THEN FALSE
  ELSE digits_leq(Tail(a), Tail(b))

\* str::parse::<u64>(): an optional "+", then one or more digits, the value
\* at most u64::MAX.  The value is kept as its decimal digits without
\* leading zeros, since it exceeds the integers TLC computes with.
parse_u64(str) ==
  LET digits == IF Len(str) > 0 /\ Head(str) = "+" THEN Tail(str) ELSE str
      value == strip_leading_zeros(digits)
  IN IF digits = <<>> \/ \E i \in 1..Len(digits) : digits[i] \notin Digits
     THEN [ok |-> FALSE, value |-> NoPost]
     ELSE IF Len(value) > Len(Str_u64_max)
             \/ (Len(value) = Len(Str_u64_max) /\ ~digits_leq(value, Str_u64_max))
     THEN [ok |-> FALSE, value |-> NoPost]
     ELSE [ok |-> TRUE, value |-> value]

\* PostParserContext::is_internal_thread_post
is_internal_thread_post(internal, post_no) ==
  post_no \in internal

\* Element::has_class: the class attribute, split at spaces, has class_name.
has_class(element, class_name) ==
  \E i \in 1..Len(element.attributes) :
    /\ element.attributes[i].name = Str_class
    /\ LET classes == split_into_parts_by_separator(element.attributes[i].value, " ")
       IN \E j \in 1..Len(classes) : classes[j] = class_name

\* anchor::handle_single_post_quote: the label becomes a TextPart and the
\* link a spannable over it, starting at total_text_length.
handle_single_post_quote(acc, post_link, quote_text_child, total_text_length) ==
  LET spannable == Spannable(total_text_length, Len(quote_text_child),
                             post_link.kind, post_link.post_no)
  IN [acc EXCEPT !.text_parts = Append(@, TextPart(quote_text_child)),
                 !.spannables = IF is_valid(spannable) THEN Append(@, spannable) ELSE @]

\* ------------------------------------------------------------ SpanHandler

\* The accumulators of one flattening pass.
EmptyAcc ==
  [panic |-> NoPanic, text_parts |-> <<>>, spannables |-> <<>>]

PostLink(internal, quote_value) ==
  IF is_internal_thread_post(internal, quote_value)
  THEN [kind |-> "Quote", post_no |-> quote_value]
  ELSE [kind |-> "Dead", post_no |-> quote_value]

\* The label branch of handle_deadlink_class, from the decoded child text on.
handle_quote_text_child(internal, quote_text_child, acc) ==
  IF HasAt(quote_text_child, 0, <<">", ">">>)
  THEN LET quote_value_result == parse_u64(SubSeq(quote_text_child, 3, Len(quote_text_child))) IN
    IF ~quote_value_result.ok
    THEN acc
    ELSE LET post_link == PostLink(internal, quote_value_result.value)
             total_text_length == sum_characters_count(acc.text_parts, 0, Len(acc.text_parts))
         IN handle_single_post_quote(acc, post_link, quote_text_child, total_text_length)
  ELSE acc

\* A plausible slip: the start offset is counted in bytes, not in text units.
handle_deadlink_class_byte_start(internal, element, acc) ==
  IF Len(element.children) > 1
  THEN acc
  ELSE IF Len(element.children) = 0
  THEN [acc EXCEPT !.panic = PanicUnwrapNone]
  ELSE LET quote_text_child_node == element.children[1] IN
    IF quote_text_child_node.kind = "Element"
    THEN acc
    ELSE LET quote_text_child == decode_html_entities(quote_text_child_node.text) IN
      IF HasAt(quote_text_child, 0, <<">", ">">>)
         /\ parse_u64(SubSeq(quote_text_child, 3, Len(quote_text_child))).ok
      THEN handle_single_post_quote(
             acc,
             PostLink(internal, parse_u64(SubSeq(quote_text_child, 3, Len(quote_text_child))).value),
             quote_text_child,
             sum_string_len(acc.text_parts, 0, Len(acc.text_parts)))
      ELSE acc

\* A plausible slip: a single Element child is looked through to its text.
handle_deadlink_class_through_element(internal, element, acc) ==
  IF Len(element.children) > 1
  THEN acc
  ELSE IF Len(element.children) = 0
  THEN [acc EXCEPT !.panic = PanicUnwrapNone]
  ELSE LET quote_text_child_node == element.children[1] IN
    IF quote_text_child_node.kind = "Element"
    THEN IF Len(quote_text_child_node.children) = 1
            /\ quote_text_child_node.children[1].kind = "Text"
         THEN handle_quote_text_child(
                internal, decode_html_entities(quote_text_child_node.children[1].text), acc)
         ELSE acc
    ELSE handle_quote_text_child(
           internal, decode_html_entities(quote_text_child_node.text), acc)

\* SpanHandler::handle_deadlink_class: the accumulators it leaves; it
\* returns true on every path that returns.
handle_deadlink_class(internal, element, acc) ==
  IF Len(element.children) > 1
  THEN acc
  ELSE IF Len(element.children) = 0
  THEN [acc EXCEPT !.panic = PanicUnwrapNone]
  ELSE LET quote_text_child_node == element.children[1] IN
    IF quote_text_child_node.kind = "Element"
    THEN acc
    ELSE handle_quote_text_child(
           internal, decode_html_entities(quote_text_child_node.text), acc)

\* SpanHandler::pre_handle: [handled, acc]
SpanHandler_pre_handle(internal, element, acc) ==
  IF has_class(element, Str_deadlink)
  THEN [handled |-> TRUE, acc |-> handle_deadlink_class(internal, element, acc)]
  ELSE [handled |-> FALSE, acc |-> acc]

handle_quote_class(prev_out_text_parts_index, acc) ==
  LET start == get_out_text_parts_diff_len(prev_out_text_parts_index, acc.text_parts)
      len == get_out_text_parts_new_len(prev_out_text_parts_index, acc.text_parts)
      spannable == Spannable(start, len, "GreenText", NoPost)
  IN IF is_valid(spannable)
     THEN [acc EXCEPT !.spannables = Append(@, spannable)]
     ELSE acc

SpanHandler_post_handle(element, prev_out_text_parts_index, acc) ==
  IF prev_out_text_parts_index = Len(acc.text_parts)
  THEN acc
  ELSE IF has_class(element, Str_quote)
  THEN handle_quote_class(prev_out_text_parts_index, acc)
  ELSE acc

\* --------------------------------------------------------- SpoilerHandler

SpoilerHandler_pre_handle(acc) ==
  [handled |-> FALSE, acc |-> acc]

\* A plausible slip: the spannable is pushed without the two guards.
SpoilerHandler_post_handle_unguarded(prev_out_text_parts_index, acc) ==
  [acc EXCEPT !.spannables =
     Append(@, Spannable(
       sum_characters_count(acc.text_parts, 0, prev_out_text_parts_index),
       sum_characters_count(acc.text_parts, prev_out_text_parts_index, Len(acc.text_parts)),
       "Spoiler", NoPost))]

SpoilerHandler_post_handle(prev_out_text_parts_index, acc) ==
  IF prev_out_text_parts_index = Len(acc.text_parts)
  THEN acc
  ELSE LET start == sum_characters_count(acc.text_parts, 0, prev_out_text_parts_index)
           len == sum_characters_count(acc.text_parts, prev_out_text_parts_index,
                                       Len(acc.text_parts))
           spannable == Spannable(start, len, "Spoiler", NoPost)
       IN IF is_valid(spannable)
          THEN [acc EXCEPT !.spannables = Append(@, spannable)]
          ELSE acc

\* ------------------------------------------------------- flattening engine

\* The handler-dispatch table: the rule handler of an element.
rule_handler(element) ==
  IF element.tag_name = Str_span THEN "SpanHandler"
  ELSE IF element.tag_name = <<"s">> THEN "SpoilerHandler"
  ELSE "default"

pre_handle(handler, internal, element, acc) ==
  IF handler = "SpanHandler" THEN SpanHandler_pre_handle(internal, element, acc)
  ELSE IF handler = "SpoilerHandler" THEN SpoilerHandler_pre_handle(acc)
  ELSE [handled |-> FALSE, acc |-> acc]

post_handle(handler, element, prev_out_text_parts_index, acc) ==
  IF handler = "SpanHandler"
  THEN SpanHandler_post_handle(element, prev_out_text_parts_index, acc)
  ELSE IF handler = "SpoilerHandler"
  THEN SpoilerHandler_post_handle(prev_out_text_parts_index, acc)
  ELSE acc

RECURSIVE flatten_nodes(_, _, _, _)

\* One element under the pre/post hook protocol.
flatten_element(element, internal, acc) ==
  LET handler == rule_handler(element)
      prev_text_index == Len(acc.text_parts)
      pre == pre_handle(handler, internal, element, acc)
  IN IF pre.acc.panic # NoPanic \/ pre.handled
     THEN pre.acc
     ELSE LET inner == flatten_nodes(element.children, 1, internal, pre.acc) IN
       IF inner.panic # NoPanic
       THEN inner
       ELSE post_handle(handler, element, prev_text_index, inner)

\* The depth-first, left-to-right walk over nodes[i..].
flatten_nodes(nodes, i, internal, acc) ==
  IF i > Len(nodes) \/ acc.panic # NoPanic
  THEN acc
  ELSE LET node == nodes[i] IN
    IF node.kind = "Text"
    THEN flatten_nodes(nodes, i + 1, internal,
           [acc EXCEPT !.text_parts = Append(@, TextPart(decode_html_entities(node.text)))])
    ELSE flatten_nodes(nodes, i + 1, internal, flatten_element(node, internal, acc))

flatten(nodes, internal) ==
  flatten_nodes(nodes, 1, internal, EmptyAcc)

RECURSIVE flat_text_from(_, _)
flat_text_from(out_text_parts, i) ==
  IF i > Len(out_text_parts) THEN <<>>
  ELSE out_text_parts[i].text \o flat_text_from(out_text_parts, i + 1)

\* The flattened text: the text parts joined.
flat_text(out_text_parts) ==
  flat_text_from(out_text_parts, 1)

\* ------------------------------------------------------------------ inputs

TagDisabled ==
  <<"a", " ", "h", "r", "e", "f", "=", "\"", "x", "\"", " ", "d", "i", "s",
    "a", "b", "l", "e", "d">>
TagDataX ==
  <<"t", " ", "d", "a", "t", "a", "-", "x", "=", "\"", "a", " ", "b", "\"">>
TagEmptyAttr ==
  <<"a", " ", "e", "m", "p", "t", "y", "=", "\"", "\"", " ", "k", "=", "\"",
    "v", "\"">>
TagNoValue ==
  <<"a", " ", "x", "=">>
TagNoName ==
  <<"a", " ", "=", "\"", "v", "\"">>
TagSpanQuote ==
  <<"s", "p", "a", "n", " ", "c", "l", "a", "s", "s", "=", "\"", "q", "u",
    "o", "t", "e", "\"">>
TagBrSlash ==
  <<"b", "r", " ", "/">>
ChunkOpenS ==
  <<"<", "s", ">">>
ChunkClose ==
  <<"<", "/", "s", ">">>
ChunkBr ==
  <<"<", "b", "r", ">">>
ChunkSpanQuote ==
  <<"<", "s", "p", "a", "n", " ", "c", "l", "a", "s", "s", "=", "\"", "q",
    "u", "o", "t", "e", "\"", ">">>
ChunkSpanDeadlink ==
  <<"<", "s", "p", "a", "n", " ", "c", "l", "a", "s", "s", "=", "\"", "d",
    "e", "a", "d", "l", "i", "n", "k", "\"", ">">>
ChunkLabel5 ==
  <<"&", "g", "t", ";", "&", "g", "t", ";", "5">>
HtmlDiv ==
  <<"<", "d", "i", "v", ">">>
HtmlGreentext ==
  <<"<", "s", "p", "a", "n", " ", "c", "l", "a", "s", "s", "=", "\"", "q",
    "u", "o", "t", "e", "\"", ">", "&", "g", "t", ";", "i", "m", "p", "l",
    "y", "i", "n", "g", "<", "/", "s", "p", "a", "n", ">">>
HtmlSpoiler ==
  <<"<", "s", ">", "s", "e", "c", "r", "e", "t", "<", "/", "s", ">">>
HtmlDeadNested ==
  <<"<", "s", "p", "a", "n", " ", "c", "l", "a", "s", "s", "=", "\"", "d",
    "e", "a", "d", "l", "i", "n", "k", "\"", ">", "<", "s", "p", "a", "n",
    " ", "c", "l", "a", "s", "s", "=", "\"", "q", "u", "o", "t", "e", "l",
    "i", "n", "k", "\"", ">", "&", "g", "t", ";", "&", "g", "t", ";", "5",
    "5", "5", "<", "/", "s", "p", "a", "n", ">", "<", "/", "s", "p", "a",
    "n", ">">>
HtmlDeadPlain ==
  <<"<", "s", "p", "a", "n", " ", "c", "l", "a", "s", "s", "=", "\"", "d",
    "e", "a", "d", "l", "i", "n", "k", "\"", ">", "&", "g", "t", ";", "&",
    "g", "t", ";", "5", "5", "5", "<", "/", "s", "p", "a", "n", ">">>
HtmlGreenAccent ==
  <<"<", "s", "p", "a", "n", " ", "c", "l", "a", "s", "s", "=", "\"", "q",
    "u", "o", "t", "e", "\"", ">", "U+00E9", "<", "/", "s", "p", "a", "n",
    ">">>
HtmlNested ==
  <<"a", "<", "s", ">", "b", "<", "s", "p", "a", "n", " ", "c", "l", "a",
    "s", "s", "=", "\"", "q", "u", "o", "t", "e", "\"", ">", "U+00E9", "<",
    "b", "r", ">", "c", "<", "/", "s", "p", "a", "n", ">", "<", "/", "s",
    ">">>
HtmlVoids ==
  <<"<", "b", "r", ">", "<", "h", "r", ">", "<", "i", "m", "g", " ", "s",
    "r", "c", "=", "\"", "x", "\"", ">", "<", "w", "b", "r", ">">>
HtmlNoValue ==
  <<"<", "a", " ", "x", "=", ">">>
HtmlQuoteAfter ==
  <<"U+00E9", "<", "s", "p", "a", "n", " ", "c", "l", "a", "s", "s", "=",
    "\"", "d", "e", "a", "d", "l", "i", "n", "k", "\"", ">", "&", "g", "t",
    ";", "&", "g", "t", ";", "5", "<", "/", "s", "p", "a", "n", ">">>
HtmlOverflow ==
  <<"<", "s", "p", "a", "n", " ", "c", "l", "a", "s", "s", "=", "\"", "d",
    "e", "a", "d", "l", "i", "n", "k", "\"", ">", "&", "g", "t", ";", "&",
    "g", "t", ";", "1", "8", "4", "4", "6", "7", "4", "4", "0", "7", "3",
    "7", "0", "9", "5", "5", "1", "6", "1", "6", "<", "/", "s", "p", "a",
    "n", ">">>
HtmlMax ==
  <<"<", "s", "p", "a", "n", " ", "c", "l", "a", "s", "s", "=", "\"", "d",
    "e", "a", "d", "l", "i", "n", "k", "\"", ">", "&", "g", "t", ";", "&",
    "g", "t", ";", "1", "8", "4", "4", "6", "7", "4", "4", "0", "7", "3",
    "7", "0", "9", "5", "5", "1", "6", "1", "5", "<", "/", "s", "p", "a",
    "n", ">">>
HtmlDeadEmpty ==
  <<"<", "s", "p", "a", "n", " ", "c", "l", "a", "s", "s", "=", "\"", "d",
    "e", "a", "d", "l", "i", "n", "k", "\"", ">", "<", "/", "s", "p", "a",
    "n", ">">>
HtmlBrSlash ==
  <<"<", "b", "r", " ", "/", ">", "x", "<", "/", "s", ">", "y">>
HtmlUnterminatedClose ==
  <<"a", "<", "/", "s">>
HtmlTrailingLt ==
  <<"a", "<">>
HtmlCloseAtTop ==
  <<"a", "<", "/", "s", ">", "b">>
\* <s>a</b>b</s>c
HtmlMismatchedClose ==
  <<"<", "s", ">", "a", "<", "/", "b", ">", "b", "<", "/", "s", ">", "c">>
HtmlEmptySpoiler ==
  <<"<", "s", ">", "<", "/", "s", ">", "<", "s", "p", "a", "n", " ", "c",
    "l", "a", "s", "s", "=", "\"", "q", "u", "o", "t", "e", "\"", ">", "<",
    "b", "r", ">", "<", "/", "s", "p", "a", "n", ">">>

RECURSIVE ChunkConcats(_, _)
\* The strings made of at most n chunks.
ChunkConcats(chunks, n) ==
  IF n = 0 THEN {<<>>}
  ELSE LET shorter == ChunkConcats(chunks, n - 1)
       IN shorter \cup {p \o c : p \in shorter, c \in chunks}

TagChunks ==
  { <<"a">>, <<"b", "r">>, <<" ">>, <<"=">>, <<"\"">> }

TagScenarios ==
  { TagDisabled, TagDataX, TagEmptyAttr, TagNoValue, TagNoName, TagSpanQuote, TagBrSlash }

TagInputs ==
  ChunkConcats(TagChunks, MaxTagChunks) \cup TagScenarios

HtmlChunks ==
  { ChunkOpenS, ChunkClose, ChunkBr, ChunkSpanQuote, ChunkSpanDeadlink, ChunkLabel5,
    <<"U+00E9">>, <<"<">>, <<">">>, <<"/">> }

HtmlScenarios ==
  { HtmlDiv, HtmlGreentext, HtmlSpoiler, HtmlDeadNested, HtmlDeadPlain, HtmlGreenAccent, HtmlNested, HtmlVoids, HtmlNoValue, HtmlQuoteAfter, HtmlOverflow, HtmlMax, HtmlDeadEmpty, HtmlBrSlash, HtmlUnterminatedClose, HtmlTrailingLt, HtmlCloseAtTop, HtmlEmptySpoiler,
    HtmlMismatchedClose }

HtmlInputs ==
  ChunkConcats(HtmlChunks, MaxHtmlChunks) \cup HtmlScenarios

\* What PostParserContext may report as internal.
InternalChoices ==
  { {}, {<<"5">>} }

\* ----------------------------------------------------------- state machine

NoTagResult == [panic |-> NoPanic, element |-> NoElement]
NoParseResult == [panic |-> NoPanic, nodes |-> <<>>]

Init ==
  /\ tag_result = NoTagResult
  /\ parse_result = NoParseResult
  /\ legacy_result = NoParseResult
  /\ out = EmptyAcc
  /\ \/ /\ pc = "tag"
        /\ tag_raw \in TagInputs
        /\ html = <<>>
        /\ internal_posts = {}
     \/ /\ pc = "html"
        /\ tag_raw = <<>>
        /\ html \in HtmlInputs
        /\ internal_posts \in InternalChoices

\* HtmlParser::create_tag on the raw tag text
CreateTag ==
  /\ pc = "tag"
  /\ tag_result' = create_tag(tag_raw)
  /\ pc' = "tag_done"
  /\ UNCHANGED <<tag_raw, html, internal_posts, parse_result, legacy_result, out>>

\* HtmlParser::parse on the post body
Parse ==
  /\ pc = "html"
  /\ parse_result' = parse(html)
  /\ pc' = "parsed"
  /\ UNCHANGED <<tag_raw, tag_result, html, internal_posts, legacy_result, out>>

\* HtmlParser::parse of the parser over bytes on the post body
ParseLegacy ==
  /\ pc = "html"
  /\ legacy_result' = legacy_parse(html)
  /\ pc' = "parsed_legacy"
  /\ UNCHANGED <<tag_raw, tag_result, html, internal_posts, parse_result, out>>

\* The flattening pass over the tree parse returned
Flatten ==
  /\ pc = "parsed"
  /\ parse_result.panic = NoPanic
  /\ out' = flatten(parse_result.nodes, internal_posts)
  /\ pc' = "flattened"
  /\ UNCHANGED <<tag_raw, tag_result, html, internal_posts, parse_result, legacy_result>>

Next ==
  \/ CreateTag
  \/ Parse
  \/ ParseLegacy
  \/ Flatten

Spec == Init /\ [][Next]_vars

\* ------------------------------------------------------------------ claims

\* The names a lone opening tag may carry: no delimiter of the grammar.
PlainName(name) ==
  /\ name # <<>>
  /\ \A i \in 1..Len(name) : name[i] \notin {"<", ">", "/", " ", "=", "\""}

\* input is "<" name ">" with a plain name that is not a void element
IsLoneOpeningTag(input) ==
  /\ Len(input) >= 3
  /\ input[1] = "<"
  /\ input[Len(input)] = ">"
  /\ PlainName(SubSeq(input, 2, Len(input) - 1))
  /\ SubSeq(input, 2, Len(input) - 1) \notin VOID_ELEMENTS

\* C1, as stated: parsing a lone opening non-void tag such as <div>, with no
\* closing tag and no further ">", fails fatally and returns no tree.
C1_LoneOpeningTagFails ==
  (pc = "parsed" /\ IsLoneOpeningTag(html)) => parse_result.panic # NoPanic

\* C1, amended: parsing a lone opening non-void tag such as <div> does not
\* fail; parse returns exactly one element node of that name with no
\* attributes and an empty child sequence.
C1_LoneOpeningTagParses ==
  (pc = "parsed" /\ IsLoneOpeningTag(html)) =>
    /\ parse_result.panic = NoPanic
    /\ parse_result.nodes =
         << NodeElement([tag_name |-> SubSeq(html, 2, Len(html) - 1),
                         attributes |-> <<>>,
                         children |-> <<>>,
                         is_void_element |-> FALSE]) >>

C1_Witness ==
  /\ pc = "parsed"
  /\ html = HtmlDiv
  /\ parse_result.panic = NoPanic
  /\ Len(parse_result.nodes) = 1
  /\ parse_result.nodes[1].tag_name = <<"d", "i", "v">>

\* The panics of the two fatal conditions the contract enumerates: a closing
\* tag without ">", and a tag without a name.
EnumeratedFatal ==
  {PanicTagEnd, PanicNoName, PanicTagPartsEmpty}

\* C2: parse aborts only on an unterminated closing tag or a tag without a
\* parseable name; every other input, such as one ending in "<", yields a
\* node sequence.  Stated for the inputs without "=", where every tag with
\* some text other than spaces has a name.
C2_AbortsOnlyOnEnumeratedFatal ==
  (pc = "parsed" /\ ~Contains(html, "=") /\ parse_result.panic # NoPanic) =>
    parse_result.panic \in EnumeratedFatal

\* The first non-empty part without "=", <<>> when there is none.
FirstPartWithoutEq(tag_parts) ==
  LET named == SelectSeq(tag_parts, LAMBDA part : part # <<>> /\ ~Contains(part, "="))
  IN IF named = <<>> THEN <<>> ELSE named[1]

\* C3: the tag name create_tag returns is the first space-delimited part
\* without "="; no later part without "=" changes it.
C3_FirstPartIsTagName ==
  (pc = "tag_done" /\ tag_result.panic = NoPanic) =>
    tag_result.element.tag_name
      = FirstPartWithoutEq(split_into_parts_by_separator(tag_raw, " "))

\* The 1-based index of the first "=" of part, 0 when there is none.
FirstEq(part) ==
  IF Contains(part, "=")
  THEN CHOOSE i \in 1..Len(part) :
         part[i] = "=" /\ \A j \in 1..(i - 1) : part[j] # "="
  ELSE 0

\* The attribute name and value a part with "=" stands for: the text left
\* of the first "=" and the text right of it without its surrounding quotes.
AttrNameOf(part) ==
  SubSeq(part, 1, FirstEq(part) - 1)

AttrValueOf(part) ==
  strip_quotes(SubSeq(part, FirstEq(part) + 1, Len(part)))

\* The raw tag text has a tag name, its parts with "=" have that "=" outside
\* any double quotes, and one of them has an empty name or value.
HasEmptyAttribute(raw) ==
  LET tag_parts == split_into_parts_by_separator(raw, " ") IN
  /\ \E i \in 1..Len(tag_parts) : tag_parts[i] # <<>> /\ ~Contains(tag_parts[i], "=")
  /\ \A i \in 1..Len(tag_parts) :
       Contains(tag_parts[i], "=") => ~Contains(AttrNameOf(tag_parts[i]), "\"")
  /\ \E i \in 1..Len(tag_parts) :
       /\ Contains(tag_parts[i], "=")
       /\ (AttrNameOf(tag_parts[i]) = <<>> \/ AttrValueOf(tag_parts[i]) = <<>>)

\* C4: a part with "=" whose name or value is empty after stripping the
\* quotes (empty="", x=, ="v") is dropped silently: create_tag does not abort
\* and stores no attribute with an empty name or value.
C4_EmptyAttributeDropped ==
  (pc = "tag_done" /\ HasEmptyAttribute(tag_raw)) =>
    /\ tag_result.panic = NoPanic
    /\ \A i \in 1..Len(tag_result.element.attributes) :
         /\ tag_result.element.attributes[i].name # <<>>
         /\ tag_result.element.attributes[i].value # <<>>

\* The number of double quotes among the first n units of str.
QuotesBefore(str, n) ==
  Cardinality({i \in 1..n : str[i] = "\""})

\* The spaces of raw that lie inside a double-quoted run: those with an odd
\* number of double quotes before them.
QuotedSpaces(raw) ==
  Cardinality({i \in 1..Len(raw) : raw[i] = " " /\ QuotesBefore(raw, i) % 2 = 1})

RECURSIVE SpacesIn(_)
\* The spaces that are left in the parts.
SpacesIn(tag_parts) ==
  IF tag_parts = <<>> THEN 0
  ELSE Cardinality({i \in 1..Len(Head(tag_parts)) : Head(tag_parts)[i] = " "})
       + SpacesIn(Tail(tag_parts))

\* part is name="value" with a plain name and a value without double quotes
IsQuotedAttribute(part) ==
  /\ Contains(part, "=")
  /\ PlainName(AttrNameOf(part))
  /\ Len(part) >= FirstEq(part) + 3
  /\ part[FirstEq(part) + 1] = "\""
  /\ part[Len(part)] = "\""
  /\ ~Contains(SubSeq(part, FirstEq(part) + 2, Len(part) - 1), "\"")

\* C5: a space inside a double-quoted attribute value never splits the part
\* (the spaces left in the parts are exactly the quoted spaces of the raw
\* text, and every part has its quotes balanced except perhaps the last),
\* and the value is stored without its surrounding quotes: the part
\* data-x="a b" yields the one attribute data-x with value "a b".
C5_QuotedSpaceKeepsPart ==
  pc = "tag_done" =>
    LET tag_parts == split_into_parts_by_separator(tag_raw, " ") IN
    /\ SpacesIn(tag_parts) = QuotedSpaces(tag_raw)
    /\ \A i \in 1..(Len(tag_parts) - 1) :
         QuotesBefore(tag_parts[i], Len(tag_parts[i])) % 2 = 0
    /\ tag_result.panic = NoPanic =>
         \A i \in 1..Len(tag_parts) :
           ( /\ IsQuotedAttribute(tag_parts[i])
             /\ \A j \in (i + 1)..Len(tag_parts) :
                  Contains(tag_parts[j], "=") =>
                    AttrNameOf(tag_parts[j]) # AttrNameOf(tag_parts[i]) )
           => \E k \in 1..Len(tag_result.element.attributes) :
                tag_result.element.attributes[k]
                  = [name |-> AttrNameOf(tag_parts[i]),
                     value |-> SubSeq(tag_parts[i], FirstEq(tag_parts[i]) + 2,
                                      Len(tag_parts[i]) - 1)]
    /\ tag_raw = TagDataX =>
         /\ tag_result.panic = NoPanic
         /\ tag_result.element.attributes
              = << [name |-> <<"d", "a", "t", "a", "-", "x">>,
                    value |-> <<"a", " ", "b">>] >>

C5_Witness ==
  /\ pc = "tag_done"
  /\ tag_raw = TagDataX
  /\ Len(tag_result.element.attributes) = 1
  /\ tag_result.element.attributes[1].value = <<"a", " ", "b">>

\* The void elements as the data model lists them.
VoidNames ==
  { <<"a", "r", "e", "a">>, <<"b", "a", "s", "e">>, <<"b", "r">>,
    <<"w", "b", "r">>, <<"c", "o", "l">>, <<"h", "r">>, <<"i", "m", "g">>,
    <<"i", "n", "p", "u", "t">>, <<"l", "i", "n", "k">>,
    <<"m", "e", "t", "a">>, <<"p", "a", "r", "a", "m">> }

RECURSIVE AllElements(_)
\* The element nodes of a tree, at every depth.
AllElements(nodes) ==
  UNION { IF nodes[i].kind = "Element"
          THEN {nodes[i]} \cup AllElements(nodes[i].children)
          ELSE {} : i \in 1..Len(nodes) }

RECURSIVE VoidTagCount(_)
\* N when input is N tags <v>, each v a void element's name; -1 otherwise.
VoidTagCount(input) ==
  IF input = <<>> THEN 0
  ELSE IF \E v \in VoidNames : HasAt(input, 0, <<"<">> \o v \o <<">">>)
  THEN LET v == CHOOSE w \in VoidNames : HasAt(input, 0, <<"<">> \o w \o <<">">>)
           rest == VoidTagCount(SubSeq(input, Len(v) + 3, Len(input)))
       IN IF rest < 0 THEN -1 ELSE rest + 1
  ELSE -1

\* The 0-based offsets of html at which an opening tag's raw text starts.
OpeningTagStarts ==
  {i \in 1..(Len(html) - 1) : html[i] = "<" /\ html[i + 1] # "/"}

\* The 0-based offset of the first ">" at or after start.
FirstGt(input, start) ==
  CHOOSE k \in start..(Len(input) - 1) :
    input[k + 1] = ">" /\ \A j \in start..(k - 1) : input[j + 1] # ">"

\* C6: in a tree parse returns, an element is void iff its tag name is one
\* of the eleven void names, a void element has no children, the parse of a
\* void tag ends just past its ">" (it consumes no closing tag), and an
\* input of N top-level void tags yields N element nodes without children.
C6_VoidElements ==
  (pc = "parsed" /\ parse_result.panic = NoPanic) =>
    /\ \A e \in AllElements(parse_result.nodes) :
         /\ e.is_void_element <=> e.tag_name \in VoidNames
         /\ e.is_void_element => e.children = <<>>
    /\ \A start \in OpeningTagStarts :
         LET tag == parse_tag(html, start) IN
           (tag.panic = NoPanic /\ tag.element.tag_name \in VoidNames) =>
             /\ \E k \in start..(Len(html) - 1) : html[k + 1] = ">"
             /\ tag.offset = FirstGt(html, start) + 1
    /\ VoidTagCount(html) >= 0 =>
         /\ Len(parse_result.nodes) = VoidTagCount(html)
         /\ \A i \in 1..Len(parse_result.nodes) :
              /\ parse_result.nodes[i].kind = "Element"
              /\ parse_result.nodes[i].is_void_element
              /\ parse_result.nodes[i].children = <<>>

C6_Witness ==
  /\ pc = "parsed"
  /\ html = ChunkBr \o ChunkBr \o ChunkBr
  /\ VoidTagCount(html) = 3
  /\ Len(parse_result.nodes) = 3
  /\ parse_result.nodes[1].is_void_element
  /\ parse_result.nodes[3].children = <<>>

\* The length of the flattened text in text units.
TotalTextUnits(out_text_parts) ==
  Len(flat_text(out_text_parts))

\* C7: offset soundness: every spannable of the output lies inside the
\* flattened text, 0 <= start and start + len <= its length in text units.
C7_OffsetSoundness ==
  (pc = "flattened" /\ out.panic = NoPanic) =>
    \A i \in 1..Len(out.spannables) :
      /\ 0 <= out.spannables[i].start
      /\ out.spannables[i].start + out.spannables[i].len
           <= TotalTextUnits(out.text_parts)

\* C8: no spannable of length 0 is ever appended, and an element whose
\* subtree emits no text (greentext and spoiler elements among them)
\* produces no spannable.
C8_NoEmptySpannable ==
  pc = "flattened" =>
    /\ \A i \in 1..Len(out.spannables) : out.spannables[i].len > 0
    /\ \A e \in AllElements(parse_result.nodes) :
         LET alone == flatten(<<e>>, internal_posts) IN
           (alone.panic = NoPanic /\ alone.text_parts = <<>>) => alone.spannables = <<>>

C8_Witness ==
  /\ pc = "flattened"
  /\ html = HtmlEmptySpoiler
  /\ Cardinality(AllElements(parse_result.nodes)) = 3
  /\ out.panic = NoPanic
  /\ out.text_parts = <<>>
  /\ out.spannables = <<>>

\* node is a quote-link element: a span of class deadlink whose single child
\* is a Text that decodes to >>N, N an unsigned 64-bit number.
IsQuoteLink(node) ==
  /\ node.kind = "Element"
  /\ node.tag_name = Str_span
  /\ has_class(node, Str_deadlink)
  /\ Len(node.children) = 1
  /\ node.children[1].kind = "Text"
  /\ LET label == decode_html_entities(node.children[1].text) IN
       /\ HasAt(label, 0, <<">", ">">>)
       /\ parse_u64(SubSeq(label, 3, Len(label))).ok

QuoteLinkLabel(node) ==
  decode_html_entities(node.children[1].text)

QuoteLinkPostNo(node) ==
  parse_u64(SubSeq(QuoteLinkLabel(node), 3, Len(QuoteLinkLabel(node)))).value

\* C9: a top-level quote-link element >>N adds exactly one text part, its
\* label, and exactly one spannable: Quote{N} when N is internal and Dead{N}
\* otherwise, starting at the length in text units of the text emitted
\* before the element and as long as the label; the final output keeps both.
C9_QuoteLinkSpannable ==
  pc = "flattened" =>
    \A i \in 1..Len(parse_result.nodes) :
      LET node == parse_result.nodes[i]
          before == flatten(SubSeq(parse_result.nodes, 1, i - 1), internal_posts)
          after == flatten(SubSeq(parse_result.nodes, 1, i), internal_posts)
      IN (IsQuoteLink(node) /\ before.panic = NoPanic) =>
           /\ after.panic = NoPanic
           /\ after.text_parts = Append(before.text_parts, TextPart(QuoteLinkLabel(node)))
           /\ flat_text(after.text_parts)
                = flat_text(before.text_parts) \o QuoteLinkLabel(node)
           /\ after.spannables
                = Append(before.spannables,
                         Spannable(TotalTextUnits(before.text_parts),
                                   Len(QuoteLinkLabel(node)),
                                   IF QuoteLinkPostNo(node) \in internal_posts
                                   THEN "Quote" ELSE "Dead",
                                   QuoteLinkPostNo(node)))
           /\ out.panic = NoPanic =>
                /\ SubSeq(out.text_parts, 1, Len(after.text_parts)) = after.text_parts
                /\ SubSeq(out.spannables, 1, Len(after.spannables)) = after.spannables

C9_Witness ==
  /\ pc = "flattened"
  /\ html = HtmlQuoteAfter
  /\ internal_posts = {<<"5">>}
  /\ IsQuoteLink(parse_result.nodes[2])
  /\ out.spannables = << Spannable(1, 3, "Quote", <<"5">>) >>
  /\ flat_text(out.text_parts) = <<"U+00E9", ">", ">", "5">>

Post555 == <<"5", "5", "5">>
Label555 == <<">", ">", "5", "5", "5">>

\* C10, as stated: the nested dead link, a span of class deadlink around a
\* span of class quotelink around &gt;&gt;555, with 555 not internal,
\* flattens to >>555 and the one spannable Dead{555} at 0 of length 5.
C10_NestedDeadLinkEmitted ==
  (pc = "flattened" /\ html = HtmlDeadNested /\ Post555 \notin internal_posts) =>
    /\ flat_text(out.text_parts) = Label555
    /\ out.spannables = << Spannable(0, 5, "Dead", Post555) >>

\* C10, amended: the nested dead link flattens to an empty text without any
\* spannable, since the deadlink element's only child is an Element; the
\* plain dead link, a span of class deadlink around &gt;&gt;555, with 555 not
\* internal, flattens to >>555 and the one spannable Dead{555} at 0 of
\* length 5.
C10_PlainDeadLinkEmitted ==
  (pc = "flattened" /\ Post555 \notin internal_posts) =>
    /\ html = HtmlDeadNested =>
         /\ out.panic = NoPanic
         /\ out.text_parts = <<>>
         /\ out.spannables = <<>>
    /\ html = HtmlDeadPlain =>
         /\ out.panic = NoPanic
         /\ flat_text(out.text_parts) = Label555
         /\ out.spannables = << Spannable(0, 5, "Dead", Post555) >>

C10_Witness ==
  /\ pc = "flattened"
  /\ html = HtmlDeadNested
  /\ Post555 \notin internal_posts
  /\ Len(parse_result.nodes) = 1
  /\ parse_result.nodes[1].children[1].kind = "Element"
  /\ out.text_parts = <<>>

\* node is a quote-link element of a malformed shape: a span of class
\* deadlink that is no quote link >>N (no child, several children, an Element
\* child, a label without >>, or a post number that is no u64).
IsMalformedQuoteLink(node) ==
  /\ node.kind = "Element"
  /\ node.tag_name = Str_span
  /\ has_class(node, Str_deadlink)
  /\ ~IsQuoteLink(node)

\* C11: on a top-level quote-link element of any malformed shape pre_handle
\* does not abort, returns true, and leaves the text parts and the
\* spannables as they were before the call.
C11_MalformedQuoteLinkSkipped ==
  pc = "flattened" =>
    \A i \in 1..Len(parse_result.nodes) :
      LET node == parse_result.nodes[i]
          before == flatten(SubSeq(parse_result.nodes, 1, i - 1), internal_posts)
          pre == SpanHandler_pre_handle(internal_posts, node, before)
      IN (IsMalformedQuoteLink(node) /\ before.panic = NoPanic) =>
           /\ pre.acc.panic = NoPanic
           /\ pre.handled
           /\ pre.acc.text_parts = before.text_parts
           /\ pre.acc.spannables = before.spannables

\* The text-unit length of the text parts i..j (1-based, both included).
TextUnitsBetween(out_text_parts, i, j) ==
  Len(flat_text(SubSeq(out_text_parts, i, j)))

\* node is a greentext element (a span of class quote that is no quote link)
\* or a spoiler element (an s).
SpanKindOf(node) ==
  IF node.kind # "Element" THEN "none"
  ELSE IF node.tag_name = <<"s">> THEN "Spoiler"
  ELSE IF node.tag_name = Str_span /\ has_class(node, Str_quote)
          /\ ~has_class(node, Str_deadlink) THEN "GreenText"
  ELSE "none"

\* C12: for a top-level greentext or spoiler element with a non-empty
\* flattened subtree, the spannable of the element starts at the text-unit
\* length of the parts before the snapshot and is as long, in text units, as
\* the parts from the snapshot on; and on the same accumulators and snapshot
\* the greentext and the spoiler handler compute the same start and len.
C12_TextUnitAccounting ==
  pc = "flattened" =>
    \A i \in 1..Len(parse_result.nodes) :
      LET node == parse_result.nodes[i]
          before == flatten(SubSeq(parse_result.nodes, 1, i - 1), internal_posts)
          after == flatten(SubSeq(parse_result.nodes, 1, i), internal_posts)
          prev == Len(before.text_parts)
          bare == [after EXCEPT !.spannables = <<>>]
          green == handle_quote_class(prev, bare).spannables
          spoiler == SpoilerHandler_post_handle(prev, bare).spannables
      IN ( /\ SpanKindOf(node) # "none"
           /\ after.panic = NoPanic
           /\ Len(after.text_parts) > prev ) =>
           /\ after.spannables # <<>>
           /\ after.spannables[Len(after.spannables)]
                = Spannable(TextUnitsBetween(after.text_parts, 1, prev),
                            TextUnitsBetween(after.text_parts, prev + 1,
                                             Len(after.text_parts)),
                            SpanKindOf(node), NoPost)
           /\ Len(green) = 1 /\ Len(spoiler) = 1
           /\ green[1].start = spoiler[1].start
           /\ green[1].len = spoiler[1].len

\* Whether input has a ">" at or after the 0-based offset start.
HasGtFrom(input, start) ==
  \E k \in start..(Len(input) - 1) : input[k + 1] = ">"

\* The element an opening tag's raw text gives, in either parser.
TagOf(raw, legacy) ==
  IF legacy THEN legacy_create_tag(raw) ELSE create_tag(raw)

RECURSIVE ClosingTagAt(_, _, _, _)
\* The 0-based offset of the "<" of the closing tag that ends the level
\* which is read from offset on, depth counting the elements opened and not
\* yet closed since; -1 when the input has no such closing tag.
ClosingTagAt(input, offset, depth, legacy) ==
  IF offset >= Len(input) THEN -1
  ELSE IF input[offset + 1] # "<" THEN ClosingTagAt(input, offset + 1, depth, legacy)
  ELSE IF offset + 1 >= Len(input) THEN -1
  ELSE IF input[offset + 2] = "/"
  THEN IF depth = 0 THEN offset
       ELSE IF ~HasGtFrom(input, offset + 1) THEN -1
       ELSE ClosingTagAt(input, FirstGt(input, offset + 1) + 1, depth - 1, legacy)
  ELSE IF ~HasGtFrom(input, offset + 1) THEN -1
  ELSE LET gt == FirstGt(input, offset + 1)
           tag == TagOf(SubSeq(input, offset + 2, gt), legacy)
       IN IF tag.panic # NoPanic THEN -1
          ELSE ClosingTagAt(input, gt + 1,
                            IF tag.element.is_void_element THEN depth ELSE depth + 1,
                            legacy)

\* The 0-based offsets just past the "<" of the opening tags of input.
OpeningTagStartsOf(input) ==
  {i \in 1..(Len(input) - 1) : input[i] = "<" /\ input[i + 1] # "/"}

\* What either parser gives for the tag whose raw text starts at start.
ParseTagOf(input, start, legacy) ==
  IF legacy THEN legacy_parse_tag(input, start) ELSE parse_tag(input, start)

\* What either parser gives for the level read from start on.
ParseInternalOf(input, start, legacy) ==
  IF legacy THEN legacy_parse_internal(input, start) ELSE parse_internal(input, start)

\* The statement of C13 for one parser: input is what the parser reads and
\* nodes the tree it returned.
ClosingTagEndsLevel(input, legacy, nodes) ==
  /\ LET c == ClosingTagAt(input, 0, 0, legacy) IN
       c >= 0 =>
         /\ HasGtFrom(input, c)
         /\ nodes = ParseInternalOf(SubSeq(input, 1, c), 0, legacy).nodes
         /\ ParseInternalOf(input, 0, legacy).offset = FirstGt(input, c) + 1
  /\ \A start \in OpeningTagStartsOf(input) :
       LET tag == ParseTagOf(input, start, legacy) IN
         (tag.panic = NoPanic /\ ~tag.element.is_void_element
            /\ HasGtFrom(input, start)) =>
           LET body == FirstGt(input, start) + 1
               c == ClosingTagAt(input, body, 0, legacy)
           IN c >= 0 =>
                /\ HasGtFrom(input, c)
                /\ tag.offset = FirstGt(input, c) + 1
                /\ tag.element.children =
                     ParseInternalOf(SubSeq(input, 1, c), body, legacy).nodes

\* C13: a closing tag ends the innermost level whatever its name is. Inside
\* an open element it closes that element, whose children are the nodes read
\* up to the closing tag, and the parent resumes just past the ">"; at top
\* level it ends the parse, which returns the tree of the input before the
\* closing tag and nothing of what follows it. Both parsers.
C13_ClosingTagEndsLevel ==
  /\ (pc = "parsed" /\ parse_result.panic = NoPanic) =>
       /\ ClosingTagEndsLevel(html, FALSE, parse_result.nodes)
       /\ html = HtmlMismatchedClose =>
            parse_result.nodes =
              << NodeElement([tag_name |-> <<"s">>, attributes |-> <<>>,
                              children |-> <<NodeText(<<"a">>)>>,
                              is_void_element |-> FALSE]),
                 NodeText(<<"b">>) >>
  /\ (pc = "parsed_legacy" /\ legacy_result.panic = NoPanic) =>
       /\ ClosingTagEndsLevel(legacy_as_bytes(html), TRUE, legacy_result.nodes)
       /\ html = HtmlCloseAtTop => legacy_result.nodes = <<NodeText(<<"a">>)>>

C13_Witness ==
  /\ pc = "parsed"
  /\ html = HtmlMismatchedClose
  /\ parse_result.panic = NoPanic
  /\ Len(parse_result.nodes) = 2
  /\ parse_result.nodes[1].children = <<NodeText(<<"a">>)>>
  /\ parse_result.nodes[2] = NodeText(<<"b">>)

=============================================================================
